---- MODULE Spec2Model ----
(***************************************************************************)
(* Model of pronotepy/ent/generic_func.py: the ENT login procedures.       *)
(*                                                                         *)
(* Every component is a synchronous procedure: it issues a short sequence  *)
(* of HTTP requests through a requests.Session, scrapes the pages it gets  *)
(* with BeautifulSoup, and returns the session's cookie jar or raises.     *)
(* A component is modelled as an operator from its arguments and the       *)
(* responses the server gives (in the order of the requests) to the        *)
(* result of the call: how it ended, what it returned, the requests it     *)
(* issued, the log records it wrote and the calls it made to other         *)
(* components.  One action per component performs one call.                *)
(*                                                                         *)
(* The transport is assumed to answer every request (no network error).    *)
(***************************************************************************)
EXTENDS Integers, Sequences, FiniteSets, TLC

VARIABLES call, served, reqs, logs, handoffs, outcome, ret

vars == <<call, served, reqs, logs, handoffs, outcome, ret>>

(***************************************************************************)
(* Bounds.                                                                 *)
(***************************************************************************)
\* the largest number of <input> elements in one form of a served page
MaxInputs == 2

(***************************************************************************)
(* Python values.  Python is dynamically typed and the code passes values  *)
(* of one type where another is expected, so values carry their type.      *)
(***************************************************************************)
Str(s) == [t |-> "str", v |-> s]

None == [t |-> "None", v |-> ""]

\* a requests.Session object, identified by its creation
Sess(id) == [t |-> "Session", v |-> id]

\* a requests.Response object, identified by the response it wraps
Resp(r) == [t |-> "Response", v |-> r.id]

\* the RequestsCookieJar of a session (session.cookies)
Cookies(id) == [t |-> "CookieJar", v |-> id]

\* bool(x): '' and None are falsy; objects without __bool__/__len__ are truthy
Truthy(x) == CASE x.t = "str" -> x.v # ""
               [] x.t = "None" -> FALSE
               [] OTHER -> TRUE

\* str(x) as an f-string formats it
Format(x) == CASE x.t = "str" -> x.v
               [] x.t = "None" -> "None"
               [] x.t = "Session" -> "<requests.sessions.Session object>"
               [] x.t = "Response" -> "<Response>"
               [] OTHER -> "<object>"

HEADERS == "Mozilla/5.0 (X11; Ubuntu; Linux x86_64; rv:73.0) Gecko/20100101 Firefox/73.0"

\* the names bound in the module's globals: imports, log, HEADERS and the defs
\* (the star import of ..exceptions brings the exception classes)
ModuleNames == {"getLogger", "DEBUG", "typing", "requests", "BeautifulSoup", "urlparse", "ENTLoginError", "log", "HEADERS", "_educonnect", "_cas_edu", "_cas", "_open_ent_ng_edu", "_open_ent_ng", "_wayf", "_oze_ent", "_simple_auth"}

\* looking a global name up succeeds iff the name is bound; otherwise NameError
Bound(name) == name \in ModuleNames

(***************************************************************************)
(* Dictionaries (payloads, params): functions from a set of keys.          *)
(***************************************************************************)
EmptyDict == <<>>

\* d[k] = v
Put(d, k, v) == [x \in (DOMAIN d) \cup {k} |-> IF x = k THEN v ELSE d[x]]

(***************************************************************************)
(* Requests, log records, results.                                         *)
(***************************************************************************)
\* session.get(url, params=params, headers=HEADERS)
Get(sid, url, params) == [method |-> "GET", session |-> sid, url |-> url, params |-> params, data |-> EmptyDict, headers |-> HEADERS]

\* session.post(url, headers=HEADERS, data=payload)
Post(sid, url, payload) == [method |-> "POST", session |-> sid, url |-> url, params |-> EmptyDict, data |-> payload, headers |-> HEADERS]

\* log.debug(f"[{tag} {target}] Logging in with {user}")
LogRec(tag, target, user) == [tag |-> tag, target |-> Format(target), user |-> Format(user)]

\* the binding of _educonnect's / _open_ent_ng's parameters at a call
Handoff(callee, session, username, password, url) == [callee |-> callee, session |-> session, username |-> username, password |-> password, url |-> url]

\* a call that ended by raising exc
Raise(exc, rq, lg, ho) == [outcome |-> exc, ret |-> None, reqs |-> rq, logs |-> lg, handoffs |-> ho]

\* a call that ended by returning value
Return(value, rq, lg, ho) == [outcome |-> "return", ret |-> value, reqs |-> rq, logs |-> lg, handoffs |-> ho]

(***************************************************************************)
(* Parsed pages.  A document has an optional <title>, its <form>s in       *)
(* document order, each with its attributes and its <input>s, and the      *)
(* <input>s outside every form (after the forms).  An attribute that is    *)
(* absent is None, which is what tag.get(attr) gives.                      *)
(***************************************************************************)
Input(name, value, type) == [name |-> name, value |-> value, type |-> type]

Form(class, id, action, inputs) == [class |-> class, id |-> id, action |-> action, inputs |-> inputs]

Doc(title, forms, loose) == [title |-> title, forms |-> forms, loose |-> loose]

RECURSIVE FormInputs(_)
\* the inputs of the forms, in document order
FormInputs(forms) == IF forms = <<>> THEN <<>> ELSE Head(forms).inputs \o FormInputs(Tail(forms))

\* every <input> of the document, in document order
AllInputs(soup) == FormInputs(soup.forms) \o soup.loose

\* soup.find("input", {"name": name}): the first input with that name, or None
FindInput(soup, name) == LET ins == AllInputs(soup) hits == {i \in DOMAIN ins : ins[i].name = Str(name)} IN IF hits = {} THEN None ELSE ins[CHOOSE i \in hits : \A j \in hits : i <= j]

\* whether a form has every attribute of the filter with the value asked for
Matches(form, attrs) == \A k \in DOMAIN attrs : form[k] = Str(attrs[k])

\* FindForm with the filter dropped when nothing matches it
FindForm_fallsBackToFirst(soup, attrs) == LET hits == {i \in DOMAIN soup.forms : Matches(soup.forms[i], attrs)} IN IF soup.forms = <<>> THEN None ELSE IF hits = {} THEN soup.forms[1] ELSE soup.forms[CHOOSE i \in hits : \A j \in hits : i <= j]

\* soup.find("form", attrs): the first matching form, or None
FindForm(soup, attrs) == LET hits == {i \in DOMAIN soup.forms : Matches(soup.forms[i], attrs)} IN IF hits = {} THEN None ELSE soup.forms[CHOOSE i \in hits : \A j \in hits : i <= j]

\* the loop "for input_ in form.findAll('input'): payload[input_['name']] = input_.get('value')"
\* raises KeyError at the first input without a name
HasNameless(inputs) == \E i \in DOMAIN inputs : inputs[i].name = None

RECURSIVE ScanInputs(_, _)
\* the payload after the loop over inputs (none of them nameless), from payload
ScanInputs(inputs, payload) == IF inputs = <<>> THEN payload ELSE ScanInputs(Tail(inputs), Put(payload, Head(inputs).name.v, Head(inputs).value))

\* _educonnect relaying the SAMLResponse without the RelayState
_educonnect_dropsRelayState(session, username, password, url, r1, r2) ==
  LET ho == <<Handoff("_educonnect", session, username, password, url)>>
      lg == <<LogRec("EduConnect", url, username)>>
      payload1 == Put(Put(Put(EmptyDict, "j_username", username), "j_password", password), "_eventId_proceed", Str(""))
      rq1 == <<Post(session.v, url, payload1)>>
      soup == r1.doc
      input_SAMLResponse == FindInput(soup, "SAMLResponse")
      payload2 == Put(EmptyDict, "SAMLResponse", input_SAMLResponse.value)
      form == FindForm(soup, EmptyDict)
  IN  IF ~Truthy(url) THEN Raise("ENTLoginError", <<>>, <<>>, ho)
      ELSE IF session.t # "Session" THEN Raise("AttributeError", <<>>, lg, ho)
      ELSE IF input_SAMLResponse = None THEN Return(None, rq1, lg, ho)
      ELSE IF input_SAMLResponse.value = None THEN Raise("KeyError", rq1, lg, ho)
      ELSE IF form = None THEN Raise("TypeError", rq1, lg, ho)
      ELSE IF form.action = None THEN Raise("KeyError", rq1, lg, ho)
      ELSE Return(Resp(r2), rq1 \o <<Post(session.v, form.action, payload2)>>, lg, ho)

(***************************************************************************)
(* _educonnect(session, username, password, url) with the responses r1, r2 *)
(* the server gives to its first and second request.                       *)
(***************************************************************************)
_educonnect(session, username, password, url, r1, r2) ==
  LET ho == <<Handoff("_educonnect", session, username, password, url)>>
      lg == <<LogRec("EduConnect", url, username)>>
      payload1 == Put(Put(Put(EmptyDict, "j_username", username), "j_password", password), "_eventId_proceed", Str(""))
      rq1 == <<Post(session.v, url, payload1)>>
      soup == r1.doc
      input_SAMLResponse == FindInput(soup, "SAMLResponse")
      input_relayState == FindInput(soup, "RelayState")
      payload2 == Put(EmptyDict, "SAMLResponse", input_SAMLResponse.value)
      payload3 == IF input_relayState # None THEN Put(payload2, "RelayState", input_relayState.value) ELSE payload2
      form == FindForm(soup, EmptyDict)
  IN  IF ~Truthy(url) THEN Raise("ENTLoginError", <<>>, <<>>, ho)
      ELSE IF session.t # "Session" THEN Raise("AttributeError", <<>>, lg, ho)
      ELSE IF input_SAMLResponse = None THEN Return(None, rq1, lg, ho)
      ELSE IF input_SAMLResponse.value = None THEN Raise("KeyError", rq1, lg, ho)
      ELSE IF input_relayState # None /\ input_relayState.value = None THEN Raise("KeyError", rq1, lg, ho)
      ELSE IF form = None THEN Raise("TypeError", rq1, lg, ho)
      ELSE IF form.action = None THEN Raise("KeyError", rq1, lg, ho)
      ELSE Return(Resp(r2), rq1 \o <<Post(session.v, form.action, payload3)>>, lg, ho)

\* the result of a component that called callee after issuing rq and logging
\* lg, when the callee (result e) raised: the exception propagates
Propagate(e, rq, lg) == Raise(e.outcome, rq \o e.reqs, lg \o e.logs, e.handoffs)

(***************************************************************************)
(* _open_ent_ng(username, password, url); r1 answers its POST.             *)
(***************************************************************************)
_open_ent_ng(username, password, url, r1) ==
  LET ho == <<Handoff("_open_ent_ng", None, username, password, url)>>
      lg == <<LogRec("ENT", url, username)>>
      sid == "_open_ent_ng"
      payload == Put(Put(EmptyDict, "email", username), "password", password)
  IN  IF ~Truthy(url) THEN Raise("ENTLoginError", <<>>, <<>>, ho)
      ELSE Return(Cookies(sid), <<Post(sid, url, payload)>>, lg, ho)

(***************************************************************************)
(* _cas_edu(username, password, url); r1 answers the GET, r2 the POST of   *)
(* the SAML request, r3 and r4 the requests of the relay.                  *)
(***************************************************************************)
_cas_edu(username, password, url, r1, r2, r3, r4) ==
  LET lg == <<LogRec("ENT", url, username)>>
      sid == "_cas_edu"
      rq1 == <<Get(sid, url, EmptyDict)>>
      soup == r1.doc
      inRelayState == FindInput(soup, "RelayState")
      inSAMLRequest == FindInput(soup, "SAMLRequest")
      payload == Put(Put(EmptyDict, "RelayState", inRelayState.value), "SAMLRequest", inSAMLRequest.value)
      form == FindForm(soup, EmptyDict)
      rq2 == rq1 \o <<Post(sid, form.action, payload)>>
      \* educonnect(response.url, session, username, password): positional
      e == _educonnect(Str(r2.url), Sess(sid), username, password, r3, r4)
  IN  IF ~Truthy(url) THEN Raise("ENTLoginError", <<>>, <<>>, <<>>)
      ELSE IF inRelayState = None THEN Raise("TypeError", rq1, lg, <<>>)
      ELSE IF inRelayState.value = None THEN Raise("KeyError", rq1, lg, <<>>)
      ELSE IF inSAMLRequest = None THEN Raise("TypeError", rq1, lg, <<>>)
      ELSE IF inSAMLRequest.value = None THEN Raise("KeyError", rq1, lg, <<>>)
      ELSE IF form = None THEN Raise("TypeError", rq1, lg, <<>>)
      ELSE IF form.action = None THEN Raise("KeyError", rq1, lg, <<>>)
      ELSE IF ~Bound("educonnect") THEN Raise("NameError", rq2, lg, <<>>)
      ELSE IF e.outcome # "return" THEN Propagate(e, rq2, lg)
      ELSE Return(Cookies(sid), rq2 \o e.reqs, lg \o e.logs, e.handoffs)

(***************************************************************************)
(* The form-scraping components: _cas, _oze_ent and _simple_auth share     *)
(* the steps after the GET: locate the form, copy its inputs, overlay the  *)
(* credentials, POST to the URL the GET ended at.                          *)
(***************************************************************************)
\* SubmitForm without its final "return session.cookies"
SubmitForm_noReturn(sid, username, password, attrs, r1, rq1, lg) ==
  LET soup == r1.doc
      form == FindForm(soup, attrs)
      scanned == ScanInputs(form.inputs, EmptyDict)
      payload == Put(Put(scanned, "username", username), "password", password)
  IN  IF form = None THEN Raise("AttributeError", rq1, lg, <<>>)
      ELSE IF HasNameless(form.inputs) THEN Raise("KeyError", rq1, lg, <<>>)
      ELSE Return(None, rq1 \o <<Post(sid, Str(r1.url), payload)>>, lg, <<>>)

\* SubmitForm copying the inputs of the whole page (soup.findAll) once the form is found
SubmitForm_scansWholePage(sid, username, password, attrs, r1, rq1, lg) ==
  LET soup == r1.doc
      form == FindForm(soup, attrs)
      scanned == ScanInputs(AllInputs(soup), EmptyDict)
      payload == Put(Put(scanned, "username", username), "password", password)
  IN  IF form = None THEN Raise("AttributeError", rq1, lg, <<>>)
      ELSE IF HasNameless(AllInputs(soup)) THEN Raise("KeyError", rq1, lg, <<>>)
      ELSE Return(Cookies(sid), rq1 \o <<Post(sid, Str(r1.url), payload)>>, lg, <<>>)

\* (lines 134-144 of _cas, 317-327 of _oze_ent, 361-371 of _simple_auth)
SubmitForm(sid, username, password, attrs, r1, rq1, lg) ==
  LET soup == r1.doc
      form == FindForm(soup, attrs)
      scanned == ScanInputs(form.inputs, EmptyDict)
      payload == Put(Put(scanned, "username", username), "password", password)
  IN  IF form = None THEN Raise("AttributeError", rq1, lg, <<>>)
      ELSE IF HasNameless(form.inputs) THEN Raise("KeyError", rq1, lg, <<>>)
      ELSE Return(Cookies(sid), rq1 \o <<Post(sid, Str(r1.url), payload)>>, lg, <<>>)

\* _cas without the check of its url argument
_cas_unchecked(username, password, url, r1) ==
  LET sid == "_cas"
  IN  SubmitForm(sid, username, password, Put(EmptyDict, "class", "cas__login-form"), r1, <<Get(sid, url, EmptyDict)>>, <<LogRec("ENT", url, username)>>)

\* _cas(username, password, url); r1 answers the GET
_cas(username, password, url, r1) ==
  LET sid == "_cas"
  IN  IF ~Truthy(url) THEN Raise("ENTLoginError", <<>>, <<>>, <<>>)
      ELSE SubmitForm(sid, username, password, Put(EmptyDict, "class", "cas__login-form"), r1, <<Get(sid, url, EmptyDict)>>, <<LogRec("ENT", url, username)>>)

\* _simple_auth(username, password, url, form_attr); r1 answers the GET
_simple_auth(username, password, url, form_attr, r1) ==
  LET sid == "_simple_auth"
  IN  IF ~Truthy(url) THEN Raise("ENTLoginError", <<>>, <<>>, <<>>)
      ELSE SubmitForm(sid, username, password, form_attr, r1, <<Get(sid, url, EmptyDict)>>, <<LogRec("ENT", url, username)>>)

(***************************************************************************)
(* urlparse(url).netloc and the substring test of _oze_ent.                *)
(***************************************************************************)
\* string.ascii_letters + string.digits + "+-." (urllib.parse.scheme_chars)
SchemeChars == {"a", "b", "c", "d", "e", "f", "g", "h", "i", "j", "k", "l", "m", "n", "o", "p", "q", "r", "s", "t", "u", "v", "w", "x", "y", "z", "A", "B", "C", "D", "E", "F", "G", "H", "I", "J", "K", "L", "M", "N", "O", "P", "Q", "R", "S", "T", "U", "V", "W", "X", "Y", "Z", "0", "1", "2", "3", "4", "5", "6", "7", "8", "9", "+", "-", "."}

\* s[i] (1-based), as a string of one character
Char(s, i) == SubSeq(s, i, i)

\* s.find(c, start): the least position >= start where one of the characters cs is, or 0
FindChar(s, cs, start) == LET hits == {i \in start..Len(s) : Char(s, i) \in cs} IN IF hits = {} THEN 0 ELSE CHOOSE i \in hits : \A j \in hits : i <= j

\* "sub in s"
Contains(s, sub) == \E i \in 1..(Len(s) - Len(sub) + 1) : SubSeq(s, i, i + Len(sub) - 1) = sub

\* the url after urlsplit has taken the scheme off: "scheme:" is taken off when
\* a ':' is found after the first character and only scheme characters precede it
\* that starts with a letter
AfterScheme(url) == LET i == FindChar(url, {":"}, 1) IN IF i > 1 /\ Char(url, 1) \notin {"0", "1", "2", "3", "4", "5", "6", "7", "8", "9", "+", "-", "."} /\ (\A k \in 1..(i - 1) : Char(url, k) \in SchemeChars) THEN SubSeq(url, i + 1, Len(url)) ELSE url

\* urlparse(url).netloc: what follows a leading "//" up to the first of "/?#"
Netloc(url) == LET rest == AfterScheme(url) delim == FindChar(rest, {"/", "?", "#"}, 3) IN IF SubSeq(rest, 1, 2) # "//" THEN "" ELSE IF delim = 0 THEN SubSeq(rest, 3, Len(rest)) ELSE SubSeq(rest, 3, delim - 1)

(***************************************************************************)
(* _oze_ent(username, password, url); r1 answers the GET.                  *)
(***************************************************************************)
\* OzeUsername without the test that the domain is already there
OzeUsername_alwaysSuffixes(username, url) == username \o "@" \o Netloc(url)

\* lines 312-315: the username the payload carries
OzeUsername(username, url) == LET domain == Netloc(url) IN IF ~Contains(username, domain) THEN username \o "@" \o domain ELSE username

_oze_ent(username, password, url, r1) ==
  LET sid == "_oze_ent"
  IN  IF ~Truthy(url) THEN Raise("ENTLoginError", <<>>, <<>>, <<>>)
      ELSE SubmitForm(sid, Str(OzeUsername(username.v, url.v)), password, Put(EmptyDict, "id", "auth_form"), r1, <<Get(sid, url, EmptyDict)>>, <<LogRec("ENT", url, username)>>)

(***************************************************************************)
(* _wayf(username, password, domain, entityID, returnX); r1 answers the    *)
(* GET of the discovery page, r2 and r3 the requests of the relay.         *)
(***************************************************************************)
_wayf(username, password, domain, entityID, returnX, r1, r2, r3) ==
  LET sid == "_wayf"
      entityID2 == IF ~Truthy(entityID) THEN Str(domain.v \o "/shibboleth") ELSE entityID
      returnX2 == IF ~Truthy(returnX) THEN Str(domain.v \o "/Shibboleth.sso/Login") ELSE returnX
      lg == <<LogRec("ENT", domain, username)>>
      ent_login_page == Str(domain.v \o "/discovery/WAYF")
      params == Put(Put(Put(Put(Put(EmptyDict, "entityID", entityID2), "returnX", returnX2), "returnIDParam", Str("entityID")), "action", Str("selection")), "origin", Str("https://_educonnect.education.gouv.fr/idp"))
      rq1 == <<Get(sid, ent_login_page, params)>>
      \* _educonnect(response.url, session, username, password): positional
      e == _educonnect(Str(r1.url), Sess(sid), username, password, r2, r3)
  IN  IF ~Truthy(domain) THEN Raise("ENTLoginError", <<>>, <<>>, <<>>)
      ELSE IF ~Bound("_educonnect") THEN Raise("NameError", rq1, lg, <<>>)
      ELSE IF e.outcome # "return" THEN Propagate(e, rq1, lg)
      ELSE Return(Cookies(sid), rq1 \o e.reqs, lg \o e.logs, e.handoffs)

(***************************************************************************)
(* _open_ent_ng_edu(username, password, domain); r1 answers the GET of the *)
(* unsolicited-SSO endpoint, r2 and r3 the requests of the relay, r4 the   *)
(* POST of the direct login.                                               *)
(***************************************************************************)
\* lines 185 and 189: "return open_ent_ng(response.url, username, password)",
\* where response is what the relay returned (rsp the server response it wraps)
Fallback(response, rsp, username, password, r4, rq, lg, ho) ==
  LET o == _open_ent_ng(Str(rsp.url), username, password, r4)
  IN  IF ~Bound("open_ent_ng") THEN Raise("NameError", rq, lg, ho)
      ELSE IF response = None THEN Raise("AttributeError", rq, lg, ho)
      ELSE IF o.outcome # "return" THEN Raise(o.outcome, rq \o o.reqs, lg \o o.logs, ho \o o.handoffs)
      ELSE Return(o.ret, rq \o o.reqs, lg \o o.logs, ho \o o.handoffs)

_open_ent_ng_edu(username, password, domain, r1, r2, r3, r4) ==
  LET sid == "_open_ent_ng_edu"
      lg == <<LogRec("ENT", domain, username)>>
      ent_login_page == Str("https://educonnect.education.gouv.fr/idp/profile/SAML2/Unsolicited/SSO")
      params == Put(EmptyDict, "providerId", Str(domain.v \o "/auth/saml/metadata/idp.xml"))
      rq1 == <<Get(sid, ent_login_page, params)>>
      \* educonnect(response.url, session, username, password): positional
      e == _educonnect(Str(r1.url), Sess(sid), username, password, r2, r3)
      response == e.ret
      rq == rq1 \o e.reqs
      lg2 == lg \o e.logs
      \* bool(response): None is falsy, a Response is truthy iff its status is ok
      truthy == response # None /\ r3.ok
  IN  IF ~Truthy(domain) THEN Raise("ENTLoginError", <<>>, <<>>, <<>>)
      ELSE IF ~Bound("educonnect") THEN Raise("NameError", rq1, lg, <<>>)
      ELSE IF e.outcome # "return" THEN Propagate(e, rq1, lg)
      ELSE IF ~truthy THEN Fallback(response, r3, username, password, r4, rq, lg2, e.handoffs)
      ELSE IF r3.doc.title = None THEN Raise("AttributeError", rq, lg2, e.handoffs)
      ELSE IF r3.doc.title = Str("Authentification") THEN Fallback(response, r3, username, password, r4, rq, lg2, e.handoffs)
      ELSE Return(Cookies(sid), rq, lg2, e.handoffs)

(***************************************************************************)
(* The inputs of the calls: arguments and served responses.                *)
(***************************************************************************)
Usernames == {"", "alice"}

\* usernames of _oze_ent: without and with the domain
OzeUsernames == {"", "alice", "alice@oze.fr"}

Passwords == {"", "s3cret"}

\* url / domain arguments
Urls == {"", "https://ent.fr/login"}

\* url arguments of _oze_ent: empty, with scheme and path, without scheme,
\* with a query right after the host, with a port and no path
OzeUrls == {"", "https://oze.fr/login", "oze.fr/login", "https://oze.fr?next=/a", "http://oze.fr:8080"}

\* entityID / returnX arguments of _wayf
WayfParams == {"", "urn:sp"}

\* form_attr arguments of _simple_auth
FormAttrs == {EmptyDict, Put(EmptyDict, "id", "auth_form"), Put(EmptyDict, "class", "login")}

\* the URL a response ended at (after redirects)
RespUrls == {"https://idp.fr/sso", "https://ent.fr/home"}

\* all sequences over S of length at most n
SeqsUpTo(S, n) == UNION {[1..k -> S] : k \in 0..n}

Response(id, url, ok, doc) == [id |-> id, url |-> url, ok |-> ok, doc |-> doc]

EmptyDoc == Doc(None, <<>>, <<>>)

\* responses whose page carries nothing of interest
PlainResponses(id) == {Response(id, u, TRUE, EmptyDoc) : u \in RespUrls}

\* the inputs of the SAML pages: with and without a value attribute
SamlInputs == {Input(Str(n), v, "hidden") : n \in {"RelayState", "SAMLRequest", "SAMLResponse"}, v \in {None, Str("tok")}}

\* SAML pages: at most one form (with or without an action), its inputs, and
\* at most one input outside it
SamlDocs == {Doc(None, fs, l) : fs \in {<<>>} \cup {<<Form(None, None, a, ins)>> : a \in {None, Str("https://sp.fr/acs")}, ins \in SeqsUpTo(SamlInputs, MaxInputs)}, l \in {<<>>} \cup {<<Input(Str(n), Str("out"), "hidden")>> : n \in {"RelayState", "SAMLRequest", "SAMLResponse"}}}

SamlResponses(id) == {Response(id, "https://idp.fr/sso", TRUE, d) : d \in SamlDocs}

\* the inputs of the login forms: hidden with a value, hidden without a value,
\* a submit button, an input without a name, a pre-filled username field
LoginInputs == {Input(Str("csrf"), Str("tok"), "hidden"), Input(Str("lt"), None, "hidden"), Input(Str("submit"), Str("go"), "submit"), Input(None, Str("x"), "hidden"), Input(Str("username"), Str("pre"), "text")}

\* the attributes (class, id) a login form carries
LoginFormKinds == {<<Str("cas__login-form"), Str("auth_form")>>, <<Str("login"), None>>}

LoginForms == {Form(k[1], k[2], Str("/submit"), ins) : k \in LoginFormKinds, ins \in SeqsUpTo(LoginInputs, MaxInputs)}

\* forms that may precede the login form on the page
Decoys == {<<>>, <<Form(Str("search"), Str("search"), Str("/q"), <<Input(Str("q"), Str("terms"), "text")>>)>>, <<Form(Str("cas__login-form"), Str("auth_form"), Str("/old"), <<Input(Str("old"), Str("1"), "hidden")>>)>>}

\* login pages: an optional decoy form, at most one login form, and possibly
\* an input outside the forms
LoginDocs == {Doc(None, pre \o fs, l) : pre \in Decoys, fs \in SeqsUpTo(LoginForms, 1), l \in {<<>>, <<Input(Str("tracker"), Str("t"), "hidden")>>}}

LoginResponses(id) == {Response(id, u, TRUE, d) : u \in RespUrls, d \in LoginDocs}

\* the pages the relay's second request may get, by title and status
TitleResponses(id) == {Response(id, "https://ent.fr/home", ok, Doc(t, <<>>, <<>>)) : ok \in BOOLEAN, t \in {None, Str("Authentification"), Str("Accueil")}}

\* the pages of the relay's first request inside a component
RelayResponses(id) == {Response(id, "https://idp.fr/sso", TRUE, Doc(None, fs, <<>>)) : fs \in {<<>>, <<Form(None, None, Str("https://sp.fr/acs"), <<Input(Str("SAMLResponse"), Str("tok"), "hidden")>>)>>}}

(***************************************************************************)
(* The state: the last call, the responses the server served to it, the    *)
(* requests it issued, the log records it wrote, the calls it made to      *)
(* _educonnect / _open_ent_ng, how it ended and what it returned.          *)
(***************************************************************************)
Call(fn, session, username, password, target, entityID, returnX, form_attr) == [fn |-> fn, session |-> session, username |-> username, password |-> password, target |-> target, entityID |-> entityID, returnX |-> returnX, form_attr |-> form_attr]

Init ==
  /\ call = Call("none", "", "", "", "", "", "", EmptyDict)
  /\ served = <<>>
  /\ reqs = <<>>
  /\ logs = <<>>
  /\ handoffs = <<>>
  /\ outcome = "none"
  /\ ret = None

\* the call c ran with the server answering rs, in this order, and ended as res
Finish(c, res, rs) ==
  /\ call' = c
  /\ served' = SubSeq(rs, 1, Len(res.reqs))
  /\ reqs' = res.reqs
  /\ logs' = res.logs
  /\ handoffs' = res.handoffs
  /\ outcome' = res.outcome
  /\ ret' = res.ret

\* A behaviour is one call: every call starts from the state after
\* construction and shares nothing with another call.
Call_educonnect ==
  /\ call.fn = "none"
  /\ \E u \in Usernames, p \in Passwords, url \in Urls, r1 \in SamlResponses("r1"), r2 \in PlainResponses("r2") :
       Finish(Call("_educonnect", "caller", u, p, url, "", "", EmptyDict), _educonnect(Sess("caller"), Str(u), Str(p), Str(url), r1, r2), <<r1, r2>>)

Call_cas_edu ==
  /\ call.fn = "none"
  /\ \E u \in Usernames, p \in Passwords, url \in Urls, r1 \in SamlResponses("r1"), r2 \in PlainResponses("r2"), r3 \in RelayResponses("r3"), r4 \in {Response("r4", "https://ent.fr/home", TRUE, EmptyDoc)} :
       Finish(Call("_cas_edu", "", u, p, url, "", "", EmptyDict), _cas_edu(Str(u), Str(p), Str(url), r1, r2, r3, r4), <<r1, r2, r3, r4>>)

Call_cas ==
  /\ call.fn = "none"
  /\ \E u \in Usernames, p \in Passwords, url \in Urls, r1 \in LoginResponses("r1"), r2 \in {Response("r2", "https://ent.fr/home", TRUE, EmptyDoc)} :
       Finish(Call("_cas", "", u, p, url, "", "", EmptyDict), _cas(Str(u), Str(p), Str(url), r1), <<r1, r2>>)

Call_open_ent_ng_edu ==
  /\ call.fn = "none"
  /\ \E u \in Usernames, p \in Passwords, d \in Urls, r1 \in PlainResponses("r1"), r2 \in RelayResponses("r2"), r3 \in TitleResponses("r3"), r4 \in PlainResponses("r4") :
       Finish(Call("_open_ent_ng_edu", "", u, p, d, "", "", EmptyDict), _open_ent_ng_edu(Str(u), Str(p), Str(d), r1, r2, r3, r4), <<r1, r2, r3, r4>>)

Call_open_ent_ng ==
  /\ call.fn = "none"
  /\ \E u \in Usernames, p \in Passwords, url \in Urls, r1 \in PlainResponses("r1") :
       Finish(Call("_open_ent_ng", "", u, p, url, "", "", EmptyDict), _open_ent_ng(Str(u), Str(p), Str(url), r1), <<r1>>)

Call_wayf ==
  /\ call.fn = "none"
  /\ \E u \in Usernames, p \in Passwords, d \in Urls, eid \in WayfParams, rx \in WayfParams, r1 \in PlainResponses("r1"), r2 \in RelayResponses("r2"), r3 \in PlainResponses("r3") :
       Finish(Call("_wayf", "", u, p, d, eid, rx, EmptyDict), _wayf(Str(u), Str(p), Str(d), Str(eid), Str(rx), r1, r2, r3), <<r1, r2, r3>>)

Call_oze_ent ==
  /\ call.fn = "none"
  /\ \E u \in OzeUsernames, p \in Passwords, url \in OzeUrls, r1 \in LoginResponses("r1"), r2 \in {Response("r2", "https://ent.fr/home", TRUE, EmptyDoc)} :
       Finish(Call("_oze_ent", "", u, p, url, "", "", EmptyDict), _oze_ent(Str(u), Str(p), Str(url), r1), <<r1, r2>>)

Call_simple_auth ==
  /\ call.fn = "none"
  /\ \E u \in Usernames, p \in Passwords, url \in Urls, fa \in FormAttrs, r1 \in LoginResponses("r1"), r2 \in {Response("r2", "https://ent.fr/home", TRUE, EmptyDoc)} :
       Finish(Call("_simple_auth", "", u, p, url, "", "", fa), _simple_auth(Str(u), Str(p), Str(url), fa, r1), <<r1, r2>>)

Next ==
  \/ Call_educonnect
  \/ Call_cas_edu
  \/ Call_cas
  \/ Call_open_ent_ng_edu
  \/ Call_open_ent_ng
  \/ Call_wayf
  \/ Call_oze_ent
  \/ Call_simple_auth

Spec == Init /\ [][Next]_vars

(***************************************************************************)
(* Vocabulary of the properties.                                           *)
(***************************************************************************)
Components == {"_educonnect", "_cas_edu", "_cas", "_open_ent_ng_edu", "_open_ent_ng", "_wayf", "_oze_ent", "_simple_auth"}

\* the components that return cookies
CookieComponents == Components \ {"_educonnect"}

\* the exceptions other than the login error
Unhandled == {"NameError", "AttributeError", "TypeError", "KeyError"}

\* the call has been made and has ended
Ended == call.fn \in Components /\ outcome # "none"

\* the session's cookie jar was returned
ReturnedCookies == outcome = "return" /\ ret.t = "CookieJar"

\* the inputs named n of a document, as positions in document order
Named(doc, n) == {i \in DOMAIN AllInputs(doc) : AllInputs(doc)[i].name = Str(n)}

\* the first input named n of a document that has one
FirstNamed(doc, n) == AllInputs(doc)[CHOOSE i \in Named(doc, n) : \A j \in Named(doc, n) : i <= j]

(***************************************************************************)
(* C1: for every component and every username and password, a call whose   *)
(* required url/domain argument is empty raises ENTLoginError, and no HTTP *)
(* request has been issued when the error is raised.                       *)
(***************************************************************************)
\* C1: an empty url/domain raises ENTLoginError with no request issued
C1_EmptyTargetRaisesBeforeAnyRequest == (Ended /\ call.target = "") => (outcome = "ENTLoginError" /\ reqs = <<>> /\ served = <<>>)

\* C1: _cas called with credentials and an empty url
C1_Witness == call.fn = "_cas" /\ call.target = "" /\ call.username = "alice" /\ call.password = "s3cret" /\ outcome = "ENTLoginError"

(***************************************************************************)
(* C2: every component that returns cookies ends, for every argument       *)
(* combination and every page content, either by returning the session's   *)
(* cookie jar or by raising ENTLoginError.                                 *)
(***************************************************************************)
\* C2 as stated: cookies or ENTLoginError, nothing else
C2_Original == (Ended /\ call.fn \in CookieComponents) => (ReturnedCookies \/ outcome = "ENTLoginError")

\* C2 as amended: such a call ends in exactly one of three ways: it returns
\* the cookie jar of the session it created, it raises ENTLoginError, or it
\* aborts with an unhandled exception that is not a login error (NameError,
\* AttributeError, TypeError, KeyError); it never returns anything but the
\* cookie jar of its own session.
C2_CookiesOrLoginErrorOrUnhandled ==
  (Ended /\ call.fn \in CookieComponents) =>
    \/ (ReturnedCookies /\ ret = Cookies(call.fn) /\ reqs # <<>> /\ (\A i \in DOMAIN reqs : reqs[i].session = call.fn))
    \/ (outcome = "ENTLoginError" /\ ret = None)
    \/ (outcome \in Unhandled /\ ret = None)

\* C2: _cas returning the cookies of its session after its two requests
C2_Witness == call.fn = "_cas" /\ ReturnedCookies /\ ret = Cookies("_cas") /\ Len(reqs) = 2

(***************************************************************************)
(* C3: _open_ent_ng_edu with a non-empty domain GETs the unsolicited-SSO   *)
(* endpoint and hands off to the EduConnect relay; then (a) if the relay   *)
(* yields no response, the direct login is invoked with the same username  *)
(* and password and its cookies are returned; (b) if the relay's response  *)
(* has the title "Authentification", likewise; (c) otherwise the cookies   *)
(* of the SAML-path session are returned and the direct login is not       *)
(* invoked.                                                                *)
(***************************************************************************)
\* the direct login was invoked with the caller's credentials and its cookies returned
DirectLoginTaken == (\E i \in DOMAIN handoffs : handoffs[i].callee = "_open_ent_ng" /\ handoffs[i].username = Str(call.username) /\ handoffs[i].password = Str(call.password)) /\ ReturnedCookies /\ ret = Cookies("_open_ent_ng")

\* the cookies of the SAML-path session were returned without the direct login
SamlPathTaken == (\A i \in DOMAIN handoffs : handoffs[i].callee # "_open_ent_ng") /\ ReturnedCookies /\ ret = Cookies("_open_ent_ng_edu")

\* C3 as stated: the relay is handed off to, then the direct login or the SAML path follows
C3_Original ==
  (Ended /\ call.fn = "_open_ent_ng_edu" /\ call.target # "") =>
    /\ Len(reqs) >= 2
    /\ reqs[1].method = "GET"
    /\ handoffs # <<>>
    /\ handoffs[1].callee = "_educonnect"
    /\ IF Len(reqs) = 2 THEN DirectLoginTaken
       ELSE IF served[3].doc.title = Str("Authentification") THEN DirectLoginTaken
       ELSE SamlPathTaken

(***************************************************************************)
(* C4: _educonnect with a non-empty url first POSTs j_username/j_password  *)
(* to the url; if the response page contains an input named SAMLResponse,  *)
(* it issues exactly one follow-up POST, to the action URL of the page's   *)
(* form, with payload SAMLResponse (that input's value) plus RelayState    *)
(* (its value) iff an input named RelayState is present, and returns that  *)
(* POST's response; otherwise it issues no follow-up request and returns   *)
(* None.                                                                   *)
(***************************************************************************)
C4_FirstPost == Len(reqs) >= 1 /\ reqs[1].method = "POST" /\ reqs[1].session = call.session /\ reqs[1].url = Str(call.target) /\ {"j_username", "j_password"} \subseteq DOMAIN reqs[1].data /\ reqs[1].data["j_username"] = Str(call.username) /\ reqs[1].data["j_password"] = Str(call.password)

C4_FollowUp ==
  LET doc == served[1].doc
      keys == {"SAMLResponse"} \cup (IF Named(doc, "RelayState") # {} THEN {"RelayState"} ELSE {})
  IN  /\ Len(reqs) = 2
      /\ doc.forms # <<>>
      /\ reqs[2].method = "POST"
      /\ reqs[2].session = call.session
      /\ reqs[2].url = doc.forms[1].action
      /\ DOMAIN reqs[2].data = keys
      /\ \A k \in keys : reqs[2].data[k] = FirstNamed(doc, k).value
      /\ outcome = "return"
      /\ ret = Resp(served[2])

C4_NoFollowUp == Len(reqs) = 1 /\ outcome = "return" /\ ret = None

\* the relay page has what the follow-up POST is built from: value attributes
\* on the SAMLResponse input and on the RelayState input if there is one, and
\* a form with an action attribute
C4_PageComplete ==
  LET doc == served[1].doc
  IN  /\ FirstNamed(doc, "SAMLResponse").value # None
      /\ (Named(doc, "RelayState") # {} => FirstNamed(doc, "RelayState").value # None)
      /\ doc.forms # <<>>
      /\ doc.forms[1].action # None

\* C4 as stated: a SAMLResponse input always leads to the follow-up POST
C4_Original ==
  (Ended /\ call.fn = "_educonnect" /\ call.target # "") =>
    /\ C4_FirstPost
    /\ IF Named(served[1].doc, "SAMLResponse") # {} THEN C4_FollowUp ELSE C4_NoFollowUp

\* C4 as amended: the follow-up POST is issued, and its response returned,
\* when the page with the SAMLResponse input also has a form with an action
\* attribute and value attributes on the SAMLResponse input and on the
\* RelayState input if present; the rest of the claim is unchanged.
C4_RelayFollowsUpOnCompletePage ==
  (Ended /\ call.fn = "_educonnect" /\ call.target # "") =>
    /\ C4_FirstPost
    /\ (Named(served[1].doc, "SAMLResponse") # {} /\ C4_PageComplete) => C4_FollowUp
    /\ Named(served[1].doc, "SAMLResponse") = {} => C4_NoFollowUp

\* C4: a relay call that relayed SAMLResponse and RelayState and returned the response
C4_Witness == call.fn = "_educonnect" /\ Len(reqs) = 2 /\ DOMAIN reqs[2].data = {"SAMLResponse", "RelayState"} /\ outcome = "return" /\ ret.t = "Response"

\* C4: a relay call on a page without SAMLResponse
C4_WitnessNoSaml == call.fn = "_educonnect" /\ Len(reqs) = 1 /\ outcome = "return" /\ ret = None

(***************************************************************************)
(* C5: _cas_edu with a non-empty url, on a login page that has the         *)
(* RelayState and SAMLRequest inputs and a form, performs in this order a  *)
(* GET of the url, a POST of exactly {RelayState, SAMLRequest} to the      *)
(* form's action, and a hand-off to the EduConnect relay with the session  *)
(* of this call, the caller's username and password and the POST           *)
(* response's URL as the relay url; it then returns the session's cookies. *)
(***************************************************************************)
\* the login page has both inputs with a value, and a form with an action
C5_PageComplete ==
  LET doc == served[1].doc
  IN  /\ Named(doc, "RelayState") # {}
      /\ Named(doc, "SAMLRequest") # {}
      /\ FirstNamed(doc, "RelayState").value # None
      /\ FirstNamed(doc, "SAMLRequest").value # None
      /\ doc.forms # <<>>
      /\ doc.forms[1].action # None

\* C5 as stated: GET, POST, hand-off to the relay, cookies returned
C5_Original ==
  (Ended /\ call.fn = "_cas_edu" /\ call.target # "" /\ C5_PageComplete) =>
    /\ Len(reqs) >= 2
    /\ reqs[1] = Get("_cas_edu", Str(call.target), EmptyDict)
    /\ reqs[2].method = "POST"
    /\ reqs[2].url = served[1].doc.forms[1].action
    /\ DOMAIN reqs[2].data = {"RelayState", "SAMLRequest"}
    /\ handoffs # <<>>
    /\ handoffs[1] = Handoff("_educonnect", Sess("_cas_edu"), Str(call.username), Str(call.password), Str(served[2].url))
    /\ ReturnedCookies
    /\ ret = Cookies("_cas_edu")

(***************************************************************************)
(* C6: _wayf with a non-empty domain: entityID defaults to                 *)
(* "<domain>/shibboleth" and returnX to "<domain>/Shibboleth.sso/Login"    *)
(* when not supplied; the call GETs "<domain>/discovery/WAYF" with those   *)
(* parameters and the fixed origin, then relays to EduConnect with this    *)
(* call's session, the caller's username and password and the discovery    *)
(* response's URL as the relay url, and returns the session's cookies      *)
(* whatever the relay returned.                                            *)
(***************************************************************************)
C6_Discovery ==
  /\ Len(reqs) >= 1
  /\ reqs[1].method = "GET"
  /\ reqs[1].url = Str(call.target \o "/discovery/WAYF")
  /\ reqs[1].params["entityID"] = Str(IF call.entityID = "" THEN call.target \o "/shibboleth" ELSE call.entityID)
  /\ reqs[1].params["returnX"] = Str(IF call.returnX = "" THEN call.target \o "/Shibboleth.sso/Login" ELSE call.returnX)
  /\ reqs[1].params["origin"] = Str("https://_educonnect.education.gouv.fr/idp")

\* C6 as stated: discovery GET, hand-off to the relay, cookies returned
C6_Original ==
  (Ended /\ call.fn = "_wayf" /\ call.target # "") =>
    /\ C6_Discovery
    /\ handoffs # <<>>
    /\ handoffs[1] = Handoff("_educonnect", Sess("_wayf"), Str(call.username), Str(call.password), Str(served[1].url))
    /\ ReturnedCookies
    /\ ret = Cookies("_wayf")

(***************************************************************************)
(* C7: _cas and _simple_auth: for every discovered form, the payload of    *)
(* the submitted POST is exactly the map of every hidden input's name to   *)
(* its value in that form, overlaid with username and password set to the  *)
(* caller's credentials; it contains no other field (none from a           *)
(* non-hidden input of the form, none from an input outside the form).     *)
(***************************************************************************)
\* the form the component looks for on the page it fetched
C7_Filter == IF call.fn = "_cas" THEN Put(EmptyDict, "class", "cas__login-form") ELSE call.form_attr

C7_Form == FindForm(served[1].doc, C7_Filter)

\* the payload is the map of the inputs at positions sel of the form (for a
\* name given twice, the later input's value), overlaid with the credentials
C7_PayloadIs(sel) ==
  LET ins == C7_Form.inputs
      data == reqs[2].data
      names == {ins[i].name.v : i \in sel}
      last(k) == CHOOSE i \in sel : ins[i].name.v = k /\ \A j \in sel : ins[j].name.v = k => j <= i
  IN  /\ DOMAIN data = names \cup {"username", "password"}
      /\ data["username"] = Str(call.username)
      /\ data["password"] = Str(call.password)
      /\ \A k \in names \ {"username", "password"} : data[k] = ins[last(k)].value

C7_Submitted == Ended /\ call.fn \in {"_cas", "_simple_auth"} /\ Len(reqs) = 2 /\ reqs[2].method = "POST"

\* C7 as stated: the payload is the hidden inputs of the form plus the credentials
C7_Original == C7_Submitted => C7_PayloadIs({i \in DOMAIN C7_Form.inputs : C7_Form.inputs[i].type = "hidden"})

\* C7 as amended: the payload is exactly the map of every input's name to its
\* value in that form, hidden or not (None for an input without a value
\* attribute), overlaid with username and password set to the caller's
\* credentials; it contains no field from an input outside the form.
C7_PayloadIsAllInputsOfForm == C7_Submitted => C7_PayloadIs(DOMAIN C7_Form.inputs)

\* C7: a submitted form with a hidden input and a submit button, on a page with another form and an input outside the forms
C7_Witness == C7_Submitted /\ call.fn = "_simple_auth" /\ Len(served[1].doc.forms) = 2 /\ served[1].doc.loose # <<>> /\ DOMAIN reqs[2].data = {"csrf", "submit", "username", "password"}

(***************************************************************************)
(* C8: _oze_ent: for every username and every non-empty url, with domain   *)
(* the host part of the url, the username field of the submitted payload   *)
(* is the given username unchanged when the username already contains the  *)
(* domain, and "<username>@<domain>" otherwise; the password field is the  *)
(* caller's password unchanged.                                            *)
(***************************************************************************)
\* the host part of a url: what stands between the "//" that opens the url or
\* follows its "scheme:" and the next "/", "?" or "#" (or the end); empty
\* when the url has no such "//".  It is the authority, port included.
C8_HostParts(url) ==
  LET opens == {a \in 3..(Len(url) + 1) : SubSeq(url, a - 2, a - 1) = "//" /\ (a = 3 \/ (a > 4 /\ Char(url, a - 3) = ":" /\ \A i \in 1..(a - 4) : Char(url, i) \notin {":", "/", "?", "#"}))}
      closes(a) == {b \in (a - 1)..Len(url) : (b = Len(url) \/ Char(url, b + 1) \in {"/", "?", "#"}) /\ \A i \in a..b : Char(url, i) \notin {"/", "?", "#"}}
  IN  UNION {{SubSeq(url, a, b) : b \in closes(a)} : a \in opens}

C8_Domain(url) == IF C8_HostParts(url) = {} THEN "" ELSE CHOOSE h \in C8_HostParts(url) : TRUE

C8_Submitted == Ended /\ call.fn = "_oze_ent" /\ call.target # "" /\ Len(reqs) = 2 /\ reqs[2].method = "POST"

C8_WitnessUnchanged == C8_Submitted /\ call.username = "alice@oze.fr" /\ call.target = "https://oze.fr/login" /\ reqs[2].data["username"] = Str("alice@oze.fr")

(***************************************************************************)
(* C9: when a fetched page lacks the expected form or an expected hidden   *)
(* field (RelayState/SAMLRequest in _cas_edu, the located form in _cas,    *)
(* _oze_ent and _simple_auth, the form action in _educonnect after a       *)
(* SAMLResponse was found), the call aborts at that step with an unhandled *)
(* failure: no HTTP request is issued after the failure, no request        *)
(* already made is repeated, and no cookie jar is returned.                *)
(***************************************************************************)
\* the form filter of the three form-scraping components
C9_Filter == IF call.fn = "_cas" THEN Put(EmptyDict, "class", "cas__login-form") ELSE IF call.fn = "_oze_ent" THEN Put(EmptyDict, "id", "auth_form") ELSE call.form_attr

\* the page the call fetched first lacks what the component expects on it
C9_Malformed ==
  LET doc == served[1].doc
  IN  \/ (call.fn = "_cas_edu" /\ (Named(doc, "RelayState") = {} \/ Named(doc, "SAMLRequest") = {} \/ doc.forms = <<>>))
      \/ (call.fn \in {"_cas", "_oze_ent", "_simple_auth"} /\ ~(\E i \in DOMAIN doc.forms : Matches(doc.forms[i], C9_Filter)))
      \/ (call.fn = "_educonnect" /\ Named(doc, "SAMLResponse") # {} /\ (doc.forms = <<>> \/ doc.forms[1].action = None))

\* C9: a malformed page ends the call in an unhandled failure after the one request made
C9_MalformedPageAborts ==
  (Ended /\ served # <<>> /\ C9_Malformed) =>
    /\ outcome \in {"TypeError", "KeyError", "AttributeError"}
    /\ Len(reqs) = 1
    /\ ret = None

\* C9: _cas on a page whose forms do not have the class looked for
C9_Witness == Ended /\ call.fn = "_cas" /\ served # <<>> /\ C9_Malformed /\ outcome = "AttributeError" /\ served[1].doc.forms # <<>>

\* C9: the relay on a page with a SAMLResponse input and a form without action
C9_WitnessRelay == Ended /\ call.fn = "_educonnect" /\ served # <<>> /\ C9_Malformed /\ outcome = "KeyError" /\ served[1].doc.forms # <<>>

(***************************************************************************)
(* C10: the caller's password never appears in a log record and is never   *)
(* the target URL of a request; a log record holds only the url/domain the *)
(* component was configured or handed and the username; the password       *)
(* leaves the process only as the j_password or password field of a POST   *)
(* payload.                                                                *)
(***************************************************************************)
\* the urls a component of the call was configured with or handed
C10_Targets == {call.target} \cup {served[i].url : i \in DOMAIN served}

\* C10 as stated: the password is in no log record, is no request URL and is sent only as a password field
C10_Original ==
  (Ended /\ call.password # "") =>
    /\ \A i \in DOMAIN logs : logs[i].target # call.password /\ logs[i].user # call.password
    /\ \A i \in DOMAIN logs : logs[i].target \in C10_Targets /\ logs[i].user = call.username
    /\ \A i \in DOMAIN reqs : reqs[i].url # Str(call.password)
    /\ \A i \in DOMAIN reqs : \A k \in DOMAIN reqs[i].params : reqs[i].params[k] # Str(call.password)
    /\ \A i \in DOMAIN reqs : \A k \in DOMAIN reqs[i].data : reqs[i].data[k] = Str(call.password) => (reqs[i].method = "POST" /\ k \in {"j_password", "password"})

====
